---- MODULE Spec2Model ----
(***************************************************************************)
(* CookView (src/src/cookView.ts): the dual-mode recipe view, its preview  *)
(* renderer with sibling-image binding, and the countdown timers created   *)
(* by makeTimer.  Times are counted in units of 100 ms, the period of the  *)
(* interval a running timer schedules.                                     *)
(*                                                                         *)
(* Spec runs every handler.  SpecTimers runs the handlers that create,     *)
(* discard and drive timers, SpecView those of the mode, the view state    *)
(* and the text, SpecRender the renderer under every combination of the    *)
(* display toggles.  SpecRoundTrip and SpecCountdown run the mode switches *)
(* and the timers of one loaded document, SpecParse adds a text on which   *)
(* the parser throws, SpecTheme the cursor and the theme signal, SpecBind  *)
(* sibling files with malformed names, SpecFormat recipes of the total     *)
(* times the formatter is given.                                           *)
(***************************************************************************)
EXTENDS Integers, Sequences, FiniteSets, TLC

VARIABLES
    currentView,       \* this.currentView
    changeModeButton,  \* icon shown by the mode button (setIcon)
    previewDisplay,    \* previewEl.style.display
    sourceDisplay,     \* sourceEl.style.display
    doc,               \* editorView.state.doc, the editable buffer
    data,              \* this.data
    recipe,            \* this.recipe (NoRecipe while undefined)
    previewEl,         \* children of previewEl, the render tree
    timers,            \* closures made by makeTimer and their widget DOM
    schedules,         \* window's interval table: next due time per handle
    alarmAudio,        \* this.alarmAudio: TRUE while a sound of it plays
    timerAudio,        \* this.timerAudio: TRUE while a sound of it plays
    pending,           \* setState promises whose continuation has not run
    now,               \* Date.now(), in units of 100 ms
    settings,          \* this.settings, the display toggles
    files,             \* this.file.parent.children, in listing order
    thrown,            \* TRUE once an exception has escaped a handler
    selection,         \* editorView.state.selection: the cursor's offset
    editorTheme        \* the highlight style of the editor's extensions

vars == <<currentView, changeModeButton, previewDisplay, sourceDisplay, doc,
          data, recipe, previewEl, timers, schedules, alarmAudio, timerAudio,
          pending, now, settings, files, thrown, selection, editorTheme>>

(***************************************************************************)
(* Bounds of the model.                                                    *)
(***************************************************************************)
MaxTime == 6        \* the clock stops advancing here
MaxTimers == 2      \* timer closures alive at once (attached or leaked)
MaxPending == 2     \* setState promises in flight at once

TimerIds == 1..MaxTimers

(***************************************************************************)
(* Values.                                                                 *)
(***************************************************************************)
Null == -1                       \* null for end / interval / a due time
None == <<>>                     \* undefined / null / NaN for optional values
Some(v) == <<v>>
IsSome(o) == Len(o) = 1
Val(o) == o[1]

NoMode == "none"                 \* a view state record without a mode field
Modes == {"source", "preview"}

BoolSet == {TRUE, FALSE}

\* The interval period of setInterval(..., 100), in clock units.
TickPeriod == 1
\* One second, in clock units (the "* 1000" and "/ 1000" of the timer code).
Second == 10

(***************************************************************************)
(* Files.  A base name is kept as its '.'-separated segments.              *)
(***************************************************************************)
File(segments, ext) == [basename |-> segments, extension |-> ext]
NoFile == File(<<>>, "")
ThisFile == File(<<"recipe">>, "cook")

\* parseInt on the segments the model uses; None is NaN.
ParseInt(s) ==
    CASE s = "0" -> Some(0)
      [] s = "1" -> Some(1)
      [] s = "3" -> Some(3)
      [] s = "1a" -> Some(1)
      [] s = "-1" -> Some(-1)
      [] OTHER -> None

IsPrefix(p, s) == Len(p) <= Len(s) /\ SubSeq(s, 1, Len(p)) = p

\* The filter of renderPreview: same base name, or base name starting with
\* "<basename>.", and not the document itself.
OtherFiles(fs) ==
    SelectSeq(fs, LAMBDA f :
        /\ \/ f.basename = ThisFile.basename
           \/ (IsPrefix(ThisFile.basename, f.basename)
                 /\ Len(f.basename) > Len(ThisFile.basename))
        /\ f # ThisFile)

ImageExtensions == {"jpg", "jpeg", "png", "gif"}

(***************************************************************************)
(* The recipe model, as the parser returns it for the documents used.      *)
(***************************************************************************)
TextPart(s) == [type |-> "text", name |-> s, amount |-> None, units |-> None]
IngredientPart(n, a, u) ==
    [type |-> "ingredient", name |-> n, amount |-> a, units |-> u]
CookwarePart(n, a) ==
    [type |-> "cookware", name |-> n, amount |-> a, units |-> None]
TimerPart(n, a) == [type |-> "timer", name |-> n, amount |-> a, units |-> None]

Step(parts) == [line |-> parts, image |-> NoFile]

NoRecipe == [defined |-> FALSE, ingredients |-> <<>>, cookware |-> <<>>,
             timers |-> <<>>, steps |-> <<>>, image |-> NoFile]

DocEmpty == ""
DocEggs == "Boil @eggs{2} in a #pot for ~{0}.\n\nLet ~rest{1} and serve."
DocTea == "Steep @tea{1} for ~{1}."
\* A text on which the parser throws.
DocBad == "~{"

\* Texts of one step with one timer, for the amounts the formatters are
\* given: around the minute and the hour, and the amounts of the examples.
FormatTimes ==
    {0, 1, 2, 45, 59, 60, 61, 119, 120, 125, 3599, 3600, 3661, 3725, 7325}
DocWait(n) == "Wait ~{" \o ToString(n) \o "}."
WaitTexts == {DocWait(n) : n \in FormatTimes}

Texts == {DocEmpty, DocEggs}

Recipe(text) ==
    CASE text = DocEggs ->
           [defined |-> TRUE,
            ingredients |-> <<IngredientPart("eggs", Some(2), None)>>,
            cookware |-> <<CookwarePart("pot", None)>>,
            timers |-> <<TimerPart("", Some(0)), TimerPart("rest", Some(1))>>,
            steps |-> <<Step(<<TextPart("Boil "),
                               IngredientPart("eggs", Some(2), None),
                               TextPart(" in a "),
                               CookwarePart("pot", None),
                               TextPart(" for "),
                               TimerPart("", Some(0)),
                               TextPart(".")>>),
                        Step(<<TextPart("Let "),
                               TimerPart("rest", Some(1)),
                               TextPart(" and serve.")>>)>>,
            image |-> NoFile]
      [] text = DocTea ->
           [defined |-> TRUE,
            ingredients |-> <<IngredientPart("tea", Some(1), None)>>,
            cookware |-> <<>>,
            timers |-> <<TimerPart("", Some(1))>>,
            steps |-> <<Step(<<TextPart("Steep "),
                               IngredientPart("tea", Some(1), None),
                               TextPart(" for "),
                               TimerPart("", Some(1)),
                               TextPart(".")>>)>>,
            image |-> NoFile]
      [] text \in WaitTexts ->
           LET n == CHOOSE k \in FormatTimes : text = DocWait(k)
           IN  [defined |-> TRUE,
                ingredients |-> <<>>,
                cookware |-> <<>>,
                timers |-> <<TimerPart("", Some(n))>>,
                steps |-> <<Step(<<TextPart("Wait "),
                                   TimerPart("", Some(n)),
                                   TextPart(".")>>)>>,
                image |-> NoFile]
      [] OTHER ->
           [defined |-> TRUE, ingredients |-> <<>>, cookware |-> <<>>,
            timers |-> <<>>, steps |-> <<>>, image |-> NoFile]

RECURSIVE SumAmounts(_)
SumAmounts(ts) ==
    IF ts = <<>> THEN 0
    ELSE (IF IsSome(Head(ts).amount) THEN Val(Head(ts).amount) ELSE 0)
         + SumAmounts(Tail(ts))

calculateTotalTime(r) == SumAmounts(r.timers)

(***************************************************************************)
(* Formatting.                                                             *)
(***************************************************************************)
padStart2(n) == IF n < 10 THEN "0" \o ToString(n) ELSE ToString(n)

\* formatTime that appends the seconds whatever showSeconds is.
formatTimeAlwaysSeconds(time, showSeconds) ==
    LET hours == time \div 3600
        minutes == (time % 3600) \div 60
        seconds == time % 60
        tail == " " \o ToString(seconds) \o "s"
    IN  IF hours > 0
          THEN ToString(hours) \o "h " \o ToString(minutes) \o "m" \o tail
          ELSE IF minutes > 0
                 THEN ToString(minutes) \o "m" \o tail
                 ELSE ToString(seconds) \o "s"

formatTime(time, showSeconds) ==
    LET hours == time \div 3600
        minutes == (time % 3600) \div 60
        seconds == time % 60
        tail == IF showSeconds THEN " " \o ToString(seconds) \o "s" ELSE ""
    IN  IF hours > 0
          THEN ToString(hours) \o "h " \o ToString(minutes) \o "m" \o tail
          ELSE IF minutes > 0
                 THEN ToString(minutes) \o "m" \o tail
                 ELSE ToString(seconds) \o "s"

formatTimeForTimer(time) ==
    LET hours == time \div 3600
        minutes == (time % 3600) \div 60
        seconds == time % 60
    IN  IF hours > 0
          THEN ToString(hours) \o ":" \o padStart2(minutes) \o ":"
                 \o padStart2(seconds)
          ELSE ToString(minutes) \o ":" \o padStart2(seconds)

(***************************************************************************)
(* renderPreview: asset binding.                                           *)
(***************************************************************************)
\* One iteration of otherFiles.forEach: the recipe after looking at file f.
BindFile(r, f) ==
    IF f.extension \notin ImageExtensions THEN r
    ELSE IF f.basename = ThisFile.basename THEN [r EXCEPT !.image = f]
    ELSE LET split == f.basename
             s == IF Len(split) = 2 THEN ParseInt(split[2]) ELSE None
         IN  IF Len(split) = 2 /\ IsSome(s) /\ Val(s) >= 0
                  /\ Val(s) < Len(r.steps)
               THEN [r EXCEPT !.steps[Val(s) + 1].image = f]
               ELSE r

RECURSIVE BindFiles(_, _)
BindFiles(r, fs) ==
    IF fs = <<>> THEN r ELSE BindFiles(BindFile(r, Head(fs)), Tail(fs))

\* The recipe object as renderPreview leaves it (it writes the images into it).
BoundRecipe(r) ==
    IF settings.showImages THEN BindFiles(r, OtherFiles(files)) ELSE r

(***************************************************************************)
(* renderPreview: the render tree.                                         *)
(***************************************************************************)
El(tag, cls, text, children) ==
    [tag |-> tag, cls |-> cls, text |-> text, src |-> NoFile, timer |-> 0,
     children |-> children]
TextNode(s) == El("#text", "", s, <<>>)
Img(cls, f) == [El("img", cls, "", <<>>) EXCEPT !.src = f]

Opt(cond, seq) == IF cond THEN seq ELSE <<>>

RECURSIVE MapSeq(_, _)
MapSeq(Op(_), s) ==
    IF s = <<>> THEN <<>> ELSE <<Op(Head(s))>> \o MapSeq(Op, Tail(s))

\* <li> of the ingredients list and of the timers list.
AmountUnitsItem(x) ==
    El("li", "", "",
       Opt(IsSome(x.amount),
           <<El("span", "amount", ToString(Val(x.amount)), <<>>), TextNode(" ")>>)
       \o Opt(IsSome(x.units),
              <<El("span", "unit", Val(x.units), <<>>), TextNode(" ")>>)
       \o <<TextNode(x.name)>>)

\* <li> of the cookware list.
CookwareItem(x) ==
    El("li", "", "",
       Opt(IsSome(x.amount),
           <<El("span", "amount", ToString(Val(x.amount)), <<>>), TextNode(" ")>>)
       \o <<TextNode(x.name)>>)

\* The head sections with the total time shown whatever the total is.
HeadSectionsNoTimeGate(r) ==
    Opt(settings.showImages /\ r.image # NoFile, <<Img("main-image", r.image)>>)
    \o Opt(settings.showIngredientList,
           <<El("h2", "ingredients-header", "Ingredients", <<>>),
             El("ul", "ingredients", "", MapSeq(AmountUnitsItem, r.ingredients))>>)
    \o Opt(settings.showCookwareList,
           <<El("h2", "cookware-header", "Cookware", <<>>),
             El("ul", "cookware", "", MapSeq(CookwareItem, r.cookware))>>)
    \o Opt(settings.showTimersList,
           <<El("h2", "timer-header", "Timers", <<>>),
             El("ul", "timers", "", MapSeq(AmountUnitsItem, r.timers))>>)
    \o Opt(settings.showTotalTime,
           <<El("h2", "time-header", "Total Time", <<>>),
             El("p", "time", formatTime(calculateTotalTime(r), FALSE), <<>>)>>)

\* The sections renderPreview emits before the method, in order.
HeadSections(r) ==
    Opt(settings.showImages /\ r.image # NoFile, <<Img("main-image", r.image)>>)
    \o Opt(settings.showIngredientList,
           <<El("h2", "ingredients-header", "Ingredients", <<>>),
             El("ul", "ingredients", "", MapSeq(AmountUnitsItem, r.ingredients))>>)
    \o Opt(settings.showCookwareList,
           <<El("h2", "cookware-header", "Cookware", <<>>),
             El("ul", "cookware", "", MapSeq(CookwareItem, r.cookware))>>)
    \o Opt(settings.showTimersList,
           <<El("h2", "timer-header", "Timers", <<>>),
             El("ul", "timers", "", MapSeq(AmountUnitsItem, r.timers))>>)
    \o Opt(settings.showTotalTime /\ calculateTotalTime(r) > 0,
           <<El("h2", "time-header", "Total Time", <<>>),
             El("p", "time", formatTime(calculateTotalTime(r), FALSE), <<>>)>>)

\* Timer parts of the method, in document order, as <<step, part>> positions.
TimerPositions(r) ==
    UNION {{<<i, j>> : j \in {k \in 1..Len(r.steps[i].line) :
                                  r.steps[i].line[k].type = "timer"}} :
           i \in 1..Len(r.steps)}

Before(p, q) == p[1] < q[1] \/ (p[1] = q[1] /\ p[2] < q[2])

\* The ordinal (1-based) of the timer part at position p.
TimerOrdinal(r, p) ==
    Cardinality({q \in TimerPositions(r) : Before(q, p)}) + 1

\* The timer closures that makeTimer can still be given: a closure is garbage
\* once its widget is detached and it holds no interval.  renderPreview has
\* emptied previewEl before it calls makeTimer.
FreeIds == {t \in TimerIds : schedules[t] = Null}

RECURSIVE NthSmallest(_, _)
NthSmallest(S, k) ==
    LET m == CHOOSE x \in S : \A y \in S : x <= y
    IN  IF k = 1 THEN m ELSE NthSmallest(S \ {m}, k - 1)

\* The closure bound to the timer part at position p of the method.
TimerAt(r, p) == NthSmallest(FreeIds, TimerOrdinal(r, p))

\* The inline rendering of one part of a step (p is its position).
PartNode(r, p) ==
    LET part == r.steps[p[1]].line[p[2]]
    IN  CASE part.type = "text" -> TextNode(part.name)
          [] part.type = "ingredient" ->
               El("span", "ingredient", "",
                  <<TextNode(part.name)>>
                  \o Opt(IsSome(part.amount),
                         <<TextNode(" ("),
                           El("span", "amount", ToString(Val(part.amount)), <<>>)>>
                         \o Opt(IsSome(part.units),
                                <<TextNode(" "),
                                  El("span", "unit", Val(part.units), <<>>)>>)
                         \o <<TextNode(")")>>))
          [] part.type = "cookware" ->
               El("span", "cookware", "",
                  <<TextNode(part.name)>>
                  \o Opt(IsSome(part.amount),
                         <<TextNode(" ("),
                           El("span", "amount", ToString(Val(part.amount)), <<>>),
                           TextNode(")")>>))
          [] OTHER ->
               \* the button's amount text is live: it is kept in timers
               [El("span", "timer", "",
                   <<El("button", "timer-button", "",
                        <<TextNode("clock")>>
                        \o Opt(IsSome(part.amount),
                               <<TextNode(" "), El("span", "amount", "", <<>>)>>)
                        \o Opt(part.name # "",
                               <<TextNode(" "),
                                 El("span", "name", part.name, <<>>)>>))>>)
                 EXCEPT !.timer = TimerAt(r, p)]

StepNode(r, i) ==
    El("li", "", "",
       Opt(settings.showImages /\ r.steps[i].image # NoFile,
           <<Img("step-image", r.steps[i].image)>>)
       \o <<El("div", "step-text", "",
               [j \in 1..Len(r.steps[i].line) |-> PartNode(r, <<i, j>>)])>>)

MethodSection(r) ==
    <<El("h2", "method-header", "Method", <<>>),
      El("ol", "method", "", [i \in 1..Len(r.steps) |-> StepNode(r, i)])>>

\* The timers whose widgets are attached under the given children of
\* previewEl: the span.timer nodes of the step texts of ol.method, which is the
\* last child of a tree that is not empty.
TreeTimers(tree) ==
    IF tree = <<>> THEN {}
    ELSE LET ol == tree[Len(tree)]
             stepText(li) == li.children[Len(li.children)]
         IN  UNION {{stepText(ol.children[i]).children[j].timer :
                        j \in 1..Len(stepText(ol.children[i]).children)} :
                    i \in 1..Len(ol.children)} \ {0}

(***************************************************************************)
(* makeTimer: the closure state (end, interval) and the widget's DOM       *)
(* (the 'running' class of the enclosing span, the text of the .amount     *)
(* span).  phase, alarms and notes record the countdown's history.         *)
(***************************************************************************)
NoTimer ==
    [seconds |-> 0, name |-> "", end |-> Null, interval |-> Null,
     running |-> FALSE, amountEl |-> FALSE, amountText |-> "",
     phase |-> "Idle", alarms |-> 0, notes |-> 0]

makeTimer(part) ==
    [NoTimer EXCEPT
       !.seconds = IF IsSome(part.amount) THEN Val(part.amount) ELSE 0,
       !.name = part.name,
       !.amountEl = IsSome(part.amount),
       !.amountText = IF IsSome(part.amount)
                        THEN formatTime(Val(part.amount), FALSE) ELSE ""]

\* Drops the closures nothing can reach any more.
Collect(ts, tree, sch) ==
    [t \in TimerIds |->
        IF t \in TreeTimers(tree) \/ sch[t] # Null THEN ts[t] ELSE NoTimer]

(***************************************************************************)
(* renderPreview.                                                          *)
(***************************************************************************)
\* The bound: a closure must be free for every timer part of the method.
CanRender(r) ==
    r.defined => Cardinality(TimerPositions(r)) <= Cardinality(FreeIds)

\* renderPreview that does not empty previewEl before it adds the sections.
RenderedTreeNoEmpty(r) ==
    IF ~r.defined THEN previewEl
    ELSE previewEl \o HeadSections(r) \o MethodSection(r)

\* this.previewEl after renderPreview(r); r is already bound.
RenderedTree(r) ==
    IF ~r.defined THEN <<>> ELSE HeadSections(r) \o MethodSection(r)

\* The closures after renderPreview(r): one fresh closure per timer part.
\* The intervals of the widgets that empty() detached are left as they are.
RenderedTimers(r) ==
    LET made == [t \in TimerIds |->
                   IF \E p \in TimerPositions(r) : TimerAt(r, p) = t
                     THEN makeTimer(
                            LET p == CHOOSE q \in TimerPositions(r) :
                                        TimerAt(r, q) = t
                            IN  r.steps[p[1]].line[p[2]])
                     ELSE timers[t]]
    IN  Collect(made, RenderedTree(r), schedules)

\* The interval table after renderPreview: empty() clears no interval.
RenderedSchedules == schedules

renderPreview(r) ==
    LET b == IF r.defined THEN BoundRecipe(r) ELSE r
    IN  /\ CanRender(r)
        /\ recipe' = b
        /\ previewEl' = RenderedTree(b)
        /\ timers' = RenderedTimers(b)
        /\ schedules' = RenderedSchedules

(***************************************************************************)
(* View state and mode switching.                                          *)
(***************************************************************************)
\* getState(): super.getState(), the host's fields; the class adds none.
getState == [file |-> ThisFile, mode |-> NoMode]

\* switchMode that forgets to assign this.currentView.
switchModeKeepsView(mode) ==
    /\ currentView' = currentView
    /\ changeModeButton' = IF mode = "preview" THEN "pencil" ELSE "lines-of-text"
    /\ previewDisplay' = IF mode = "preview" THEN "block" ELSE "none"
    /\ sourceDisplay' = IF mode = "preview" THEN "none" ELSE "block"
    /\ UNCHANGED <<recipe, previewEl, timers, schedules>>

\* switchMode with an explicit target (the branch that is not a MouseEvent).
switchModeTo(mode) ==
    IF mode = "preview"
      THEN /\ currentView' = "preview"
           /\ changeModeButton' = "pencil"
           /\ renderPreview(recipe)
           /\ previewDisplay' = "block"
           /\ sourceDisplay' = "none"
      ELSE /\ currentView' = "source"
           /\ changeModeButton' = "lines-of-text"
           /\ previewDisplay' = "none"
           /\ sourceDisplay' = "block"
           /\ UNCHANGED <<recipe, previewEl, timers, schedules>>

\* The target a request without an explicit mode resolves to.
ToggleTarget == IF currentView = "source" THEN "preview" ELSE "source"

\* setState(state): the promise of super.setState is now in flight.
setState(state) == Append(pending, state)

SwitchMode(mode) ==
    /\ switchModeTo(mode)
    /\ UNCHANGED <<doc, data, alarmAudio, timerAudio, pending, now, settings,
                   files, thrown, selection, editorTheme>>

\* A click on the mode button without the modifier key.
ToggleClick ==
    /\ Len(pending) < MaxPending
    /\ pending' = setState([getState EXCEPT !.mode = ToggleTarget])
    /\ UNCHANGED <<currentView, changeModeButton, previewDisplay, sourceDisplay,
                   doc, data, recipe, previewEl, timers, schedules, alarmAudio,
                   timerAudio, now, settings, files, thrown,
                   selection, editorTheme>>

\* A click with the modifier key: the leaf is duplicated and the mode is set
\* on the duplicate; this view is left alone.
ToggleModClick ==
    /\ UNCHANGED <<currentView, changeModeButton, previewDisplay, sourceDisplay,
                   doc, data, recipe, previewEl, timers, schedules, alarmAudio,
                   timerAudio, pending, now, settings, files, thrown,
                   selection, editorTheme>>

\* The host restores a view state, with or without a mode field.
SetState(mode) ==
    /\ Len(pending) < MaxPending
    /\ pending' = setState([getState EXCEPT !.mode = mode])
    /\ UNCHANGED <<currentView, changeModeButton, previewDisplay, sourceDisplay,
                   doc, data, recipe, previewEl, timers, schedules, alarmAudio,
                   timerAudio, now, settings, files, thrown,
                   selection, editorTheme>>

\* The continuation of setState: if (state.mode) this.switchMode(state.mode).
SetStateThen ==
    /\ pending # <<>>
    /\ pending' = Tail(pending)
    /\ IF Head(pending).mode # NoMode
         THEN switchModeTo(Head(pending).mode)
         ELSE UNCHANGED <<currentView, changeModeButton, previewDisplay,
                          sourceDisplay, recipe, previewEl, timers, schedules>>
    /\ UNCHANGED <<doc, data, alarmAudio, timerAudio, now, settings, files, thrown,
                   selection, editorTheme>>

(***************************************************************************)
(* Document text and the editor.                                           *)
(***************************************************************************)
\* The parser is the constructor of Recipe, of the cooklang package.  It is
\* called without a try block: ParserThrows(text) says that it throws on text.
Unparsable == {DocBad}
ParserThrows(text) == text \in Unparsable

DocLength(text) == Len(text)

\* The cursor after a transaction that replaces the whole document by insert
\* and gives no selection: the editor maps the cursor through the change, to
\* the end of the inserted text from the end of a document that was not
\* empty, and to the start from anywhere else.
MapCursor(text, pos, insert) ==
    IF pos = DocLength(text) /\ DocLength(text) > 0
      THEN DocLength(insert) ELSE 0

\* editorView.dispatch({changes: {from: 0, to: doc.length, insert}}).
dispatch(insert) ==
    /\ doc' = insert
    /\ selection' = MapCursor(doc, selection, insert)

GetViewData ==
    /\ data' = doc
    /\ IF ParserThrows(doc)
         THEN recipe' = recipe /\ thrown' = TRUE
         ELSE recipe' = Recipe(doc) /\ thrown' = thrown
    /\ UNCHANGED <<currentView, changeModeButton, previewDisplay, sourceDisplay,
                   doc, previewEl, timers, schedules, alarmAudio, timerAudio,
                   pending, now, settings, files, selection, editorTheme>>

\* setViewData whose second branch inserts at the end instead of replacing.
SetViewDataAppends(text, clear) ==
    /\ data' = text
    /\ IF clear
         THEN dispatch(text)
         ELSE doc' = doc \o text /\ selection' = selection
    /\ IF ParserThrows(text)
         THEN /\ thrown' = TRUE
              /\ UNCHANGED <<recipe, previewEl, timers, schedules>>
         ELSE /\ thrown' = thrown
              /\ IF currentView = "preview"
                   THEN renderPreview(Recipe(text))
                   ELSE /\ recipe' = Recipe(text)
                        /\ UNCHANGED <<previewEl, timers, schedules>>
    /\ UNCHANGED <<currentView, changeModeButton, previewDisplay, sourceDisplay,
                   alarmAudio, timerAudio, pending, now, settings, files,
                   editorTheme>>

\* The promise of setViewData is rejected when the parser throws: the
\* statements after the call of the parser do not run.
SetViewData(text, clear) ==
    /\ data' = text
    /\ IF clear THEN dispatch(text) ELSE dispatch(text)
    /\ IF ParserThrows(text)
         THEN /\ thrown' = TRUE
              /\ UNCHANGED <<recipe, previewEl, timers, schedules>>
         ELSE /\ thrown' = thrown
              /\ IF currentView = "preview"
                   THEN renderPreview(Recipe(text))
                   ELSE /\ recipe' = Recipe(text)
                        /\ UNCHANGED <<previewEl, timers, schedules>>
    /\ UNCHANGED <<currentView, changeModeButton, previewDisplay, sourceDisplay,
                   alarmAudio, timerAudio, pending, now, settings, files,
                   editorTheme>>

Clear ==
    /\ previewEl' = <<>>
    /\ timers' = Collect(timers, <<>>, schedules)
    /\ dispatch("")
    /\ data' = ""
    /\ UNCHANGED <<currentView, changeModeButton, previewDisplay, sourceDisplay,
                   recipe, schedules, alarmAudio, timerAudio, pending, now,
                   settings, files, thrown, editorTheme>>

\* The user types in the editor (shown only while sourceEl is displayed); the
\* cursor is left behind the last character typed.
Edit(text) ==
    /\ sourceDisplay # "none"
    /\ text # doc
    /\ doc' = text
    /\ selection' = DocLength(text)
    /\ UNCHANGED <<currentView, changeModeButton, previewDisplay, sourceDisplay,
                   data, recipe, previewEl, timers, schedules, alarmAudio,
                   timerAudio, pending, now, settings, files, thrown,
                   editorTheme>>

\* The user puts the cursor somewhere else in the text.
MoveCursor(pos) ==
    /\ sourceDisplay # "none"
    /\ pos \in 0..DocLength(doc)
    /\ pos # selection
    /\ selection' = pos
    /\ UNCHANGED <<currentView, changeModeButton, previewDisplay, sourceDisplay,
                   doc, data, recipe, previewEl, timers, schedules, alarmAudio,
                   timerAudio, pending, now, settings, files, thrown,
                   editorTheme>>

\* EditorState.create({doc, extensions}): a state made without a selection
\* has its cursor at offset 0.
CreatedSelection == 0

\* The css-change handler; isDarkMode is the body's 'theme-dark' class.
UpdateEditorTheme(isDarkMode) ==
    /\ editorTheme' = IF isDarkMode THEN "dark" ELSE "light"
    /\ doc' = doc
    /\ selection' = CreatedSelection
    /\ UNCHANGED <<currentView, changeModeButton, previewDisplay, sourceDisplay,
                   data, recipe, previewEl, timers, schedules, alarmAudio,
                   timerAudio, pending, now, settings, files, thrown>>

(***************************************************************************)
(* Timers: the closure of makeTimer and updateTimer.                       *)
(***************************************************************************)
\* Math.floor(num / den) in the place of Math.round.
MathFloor(num, den) == num \div den

\* Math.round(num / den) for den > 0: halves round up.
MathRound(num, den) == (2 * num + den) \div (2 * den)

\* stop() that forgets to remove the 'running' class.
stopKeepsRunningMark(t) ==
    [timer |-> [timers[t] EXCEPT !.interval = Null, !.end = Null],
     schedules |-> IF timers[t].interval # Null
                     THEN [schedules EXCEPT ![timers[t].interval] = Null]
                     ELSE schedules,
     timerAudio |-> FALSE,
     alarmAudio |-> alarmAudio]

\* stop() over one interval variable that all timers would share.
stopSharedInterval(t) ==
    [timer |-> [timers[t] EXCEPT !.interval = Null, !.running = FALSE,
                                 !.end = Null],
     schedules |-> [u \in TimerIds |-> Null],
     timerAudio |-> FALSE,
     alarmAudio |-> alarmAudio]

\* stop() that forgets to reset the deadline.
stopKeepsDeadline(t) ==
    [timer |-> [timers[t] EXCEPT !.interval = Null, !.running = FALSE],
     schedules |-> IF timers[t].interval # Null
                     THEN [schedules EXCEPT ![timers[t].interval] = Null]
                     ELSE schedules,
     timerAudio |-> FALSE,
     alarmAudio |-> alarmAudio]

\* stop(): what the closure of timer t leaves behind.
stop(t) ==
    [timer |-> [timers[t] EXCEPT !.interval = Null, !.running = FALSE,
                                 !.end = Null],
     schedules |-> IF timers[t].interval # Null
                     THEN [schedules EXCEPT ![timers[t].interval] = Null]
                     ELSE schedules,
     timerAudio |-> FALSE,
     alarmAudio |-> alarmAudio]

\* The click handler's first branch (end === null).
activate(t) ==
    [timer |-> [timers[t] EXCEPT !.end = now + timers[t].seconds * Second,
                                 !.running = TRUE,
                                 !.interval = t,
                                 !.phase = "Running",
                                 !.alarms = 0,
                                 !.notes = 0],
     schedules |-> [schedules EXCEPT ![t] = now + TickPeriod],
     timerAudio |-> timerAudio,
     alarmAudio |-> alarmAudio]

\* The click handler's second branch.
cancel(t) == [stop(t) EXCEPT !.timer.phase = "Idle"]

\* The click handler of the timer button.
click(t) == IF timers[t].end = Null THEN activate(t) ELSE cancel(t)

\* The user clicks the button of an attached timer of a displayed preview.
Click(t) ==
    /\ t \in TreeTimers(previewEl)
    /\ previewDisplay # "none"
    /\ timers' = [timers EXCEPT ![t] = click(t).timer]
    /\ schedules' = click(t).schedules
    /\ timerAudio' = click(t).timerAudio
    /\ alarmAudio' = click(t).alarmAudio
    /\ UNCHANGED <<currentView, changeModeButton, previewDisplay, sourceDisplay,
                   doc, data, recipe, previewEl, pending, now, settings, files, thrown,
                   selection, editorTheme>>

\* remaining of updateTimer.
Remaining(t) == MathRound(timers[t].end - now, Second)

NoticeBody(t) ==
    (IF timers[t].name # "" THEN timers[t].name ELSE "Timer") \o " for "
    \o formatTimeForTimer(timers[t].seconds) \o " is done!"

\* updateTimer that does not call stop() when the countdown is over.
updateTimerNoStop(t) ==
    IF MathRound(timers[t].end - now, Second) <= 0
      THEN [timer |-> [timers[t] EXCEPT !.phase = "Expired",
                                        !.alarms = @ + 1,
                                        !.notes = @ + 1],
            schedules |-> [schedules EXCEPT ![t] = now + TickPeriod],
            timerAudio |-> timerAudio,
            alarmAudio |-> TRUE]
      ELSE [timer |-> timers[t],
            schedules |-> [schedules EXCEPT ![t] = now + TickPeriod],
            timerAudio |-> timerAudio,
            alarmAudio |-> alarmAudio]

\* updateTimer, and the interval re-armed if it was not cleared.
updateTimer(t) ==
    IF Remaining(t) <= 0
      THEN [stop(t) EXCEPT !.timer.phase = "Expired",
                           !.timer.alarms = @ + 1,
                           !.timer.notes = @ + 1,
                           !.alarmAudio = TRUE]
      ELSE [timer |-> IF timers[t].amountEl
                        THEN [timers[t] EXCEPT
                                !.amountText = formatTimeForTimer(Remaining(t))]
                        ELSE timers[t],
            schedules |-> [schedules EXCEPT ![t] = now + TickPeriod],
            timerAudio |-> timerAudio,
            alarmAudio |-> alarmAudio]

\* An interval callback runs: it is due, or overdue.
Tick(t) ==
    /\ schedules[t] # Null
    /\ now >= schedules[t]
    /\ timers' = Collect([timers EXCEPT ![t] = updateTimer(t).timer],
                         previewEl, updateTimer(t).schedules)
    /\ schedules' = updateTimer(t).schedules
    /\ timerAudio' = updateTimer(t).timerAudio
    /\ alarmAudio' = updateTimer(t).alarmAudio
    /\ UNCHANGED <<currentView, changeModeButton, previewDisplay, sourceDisplay,
                   doc, data, recipe, previewEl, pending, now, settings, files, thrown,
                   selection, editorTheme>>

\* 100 ms pass.  Interval callbacks run on time: every callback that is due
\* runs before the clock moves on.  While no interval is live nothing reads
\* the clock, so the clock is only advanced while one is.
Advance ==
    /\ now < MaxTime
    /\ \E t \in TimerIds : schedules[t] # Null
    /\ \A t \in TimerIds : schedules[t] = Null \/ schedules[t] > now
    /\ now' = now + 1
    /\ UNCHANGED <<currentView, changeModeButton, previewDisplay, sourceDisplay,
                   doc, data, recipe, previewEl, timers, schedules, alarmAudio,
                   timerAudio, pending, settings, files, thrown,
                   selection, editorTheme>>

\* The alarm sound plays to its end.
AlarmEnds ==
    /\ alarmAudio
    /\ alarmAudio' = FALSE
    /\ UNCHANGED <<currentView, changeModeButton, previewDisplay, sourceDisplay,
                   doc, data, recipe, previewEl, timers, schedules, timerAudio,
                   pending, now, settings, files, thrown, selection, editorTheme>>

(***************************************************************************)
(* Specifications.                                                         *)
(***************************************************************************)
\* The offsets of the longest text.
CursorOffsets == 0..DocLength(DocEggs)

Toggles == {"showImages", "showIngredientList", "showCookwareList",
            "showTimersList", "showTotalTime"}

AllSettings == [Toggles -> BoolSet]

AllOn == [k \in Toggles |-> TRUE]
AllOff == [k \in Toggles |-> FALSE]

SiblingsWithImages ==
    <<ThisFile, File(<<"recipe">>, "jpg"), File(<<"recipe", "0">>, "png"),
      File(<<"recipe", "3">>, "gif")>>

SiblingsWithoutImages == <<ThisFile, File(<<"notes">>, "md")>>

\* Siblings whose suffix is not the numeral of a step.
SiblingsMalformed ==
    <<ThisFile, File(<<"recipe", "1a">>, "png"), File(<<"recipe", "-1">>, "png"),
      File(<<"recipe", "x">>, "gif"), File(<<"recipe", "0", "1">>, "jpg"),
      File(<<"recipe", "0">>, "txt")>>

\* The view after its construction and onload, in a folder and with settings
\* drawn from the given sets.
InitWith(settingsSet, filesSet) ==
    /\ currentView = "source"
    /\ changeModeButton = "lines-of-text"
    /\ previewDisplay = ""
    /\ sourceDisplay = "block"
    /\ doc = ""
    /\ data = ""
    /\ recipe = NoRecipe
    /\ previewEl = <<>>
    /\ timers = [t \in TimerIds |-> NoTimer]
    /\ schedules = [t \in TimerIds |-> Null]
    /\ alarmAudio = FALSE
    /\ timerAudio = FALSE
    /\ pending = <<>>
    /\ now = 0
    /\ settings \in settingsSet
    /\ files \in filesSet
    /\ thrown = FALSE
    /\ selection = 0
    /\ editorTheme = "light"

Init == InitWith({AllOn}, {SiblingsWithImages})

Next ==
    \/ \E mode \in Modes : SwitchMode(mode)
    \/ ToggleClick
    \/ ToggleModClick
    \/ \E mode \in Modes \cup {NoMode} : SetState(mode)
    \/ SetStateThen
    \/ GetViewData
    \/ \E text \in Texts, clear \in BoolSet : SetViewData(text, clear)
    \/ Clear
    \/ \E text \in Texts : Edit(text)
    \/ \E t \in TimerIds : Click(t)
    \/ \E t \in TimerIds : Tick(t)
    \/ Advance
    \/ AlarmEnds
    \/ \E isDarkMode \in BoolSet : UpdateEditorTheme(isDarkMode)
    \/ \E pos \in CursorOffsets : MoveCursor(pos)

Spec == Init /\ [][Next]_vars

\* The handlers that create, discard or drive timers, and the clock.
NextTimers ==
    \/ \E mode \in Modes : SwitchMode(mode)
    \/ \E text \in Texts, clear \in BoolSet : SetViewData(text, clear)
    \/ Clear
    \/ \E t \in TimerIds : Click(t)
    \/ \E t \in TimerIds : Tick(t)
    \/ Advance
    \/ AlarmEnds

SpecTimers == Init /\ [][NextTimers]_vars

\* The handlers of the view's mode, state and text; no timer is started.
\* switchMode runs only where this class calls it: from the mode button and
\* from the continuation of setState.
NextView ==
    \/ ToggleClick
    \/ ToggleModClick
    \/ \E mode \in Modes \cup {NoMode} : SetState(mode)
    \/ SetStateThen
    \/ GetViewData
    \/ \E text \in Texts, clear \in BoolSet : SetViewData(text, clear)
    \/ Clear
    \/ \E text \in Texts : Edit(text)

SpecView == Init /\ [][NextView]_vars

\* The renderer under every combination of the display toggles.
InitRender ==
    InitWith(AllSettings, {SiblingsWithImages, SiblingsWithoutImages})

NextRender ==
    \/ \E mode \in Modes : SwitchMode(mode)
    \/ GetViewData
    \/ \E text \in Texts, clear \in BoolSet : SetViewData(text, clear)
    \/ Clear
    \/ \E text \in Texts : Edit(text)

SpecRender == InitRender /\ [][NextRender]_vars

\* The view after the host has loaded a file into it: onLoadFile has called
\* setViewData(text, true) on the view that InitWith describes.
InitLoaded(settingsSet, filesSet, textSet) ==
    /\ currentView = "source"
    /\ changeModeButton = "lines-of-text"
    /\ previewDisplay = ""
    /\ sourceDisplay = "block"
    /\ doc \in textSet
    /\ data = doc
    /\ recipe = Recipe(doc)
    /\ previewEl = <<>>
    /\ timers = [t \in TimerIds |-> NoTimer]
    /\ schedules = [t \in TimerIds |-> Null]
    /\ alarmAudio = FALSE
    /\ timerAudio = FALSE
    /\ pending = <<>>
    /\ now = 0
    /\ settings \in settingsSet
    /\ files \in filesSet
    /\ thrown = FALSE
    /\ selection = 0
    /\ editorTheme = "light"

\* Mode switches over one loaded document, with its timers running: the
\* model, the toggles and the sibling files stay what they are.
InitRoundTrip ==
    InitLoaded({AllOn, AllOff}, {SiblingsWithImages, SiblingsWithoutImages},
               {DocEggs, DocTea})

NextRoundTrip ==
    \/ \E mode \in Modes : SwitchMode(mode)
    \/ \E t \in TimerIds : Click(t)
    \/ \E t \in TimerIds : Tick(t)
    \/ Advance

SpecRoundTrip == InitRoundTrip /\ [][NextRoundTrip]_vars

\* The handlers of the text and of the mode, over texts that the parser
\* accepts and a text on which it throws.
ParseTexts == Texts \cup Unparsable

NextParse ==
    \/ \E mode \in Modes : SwitchMode(mode)
    \/ GetViewData
    \/ \E text \in ParseTexts, clear \in BoolSet : SetViewData(text, clear)
    \/ Clear
    \/ \E text \in ParseTexts : Edit(text)

SpecParse == Init /\ [][NextParse]_vars

\* The renderer in folders with well-formed and with malformed image names.
InitBind ==
    InitWith({AllOn, AllOff},
             {SiblingsWithImages, SiblingsWithoutImages, SiblingsMalformed})

SpecBind == InitBind /\ [][NextRender]_vars

\* The countdowns of one loaded document under clicks, ticks and mode
\* switches.
InitCountdown == InitLoaded({AllOn}, {SiblingsWithoutImages}, {DocEggs, DocTea})

NextCountdown ==
    \/ \E mode \in Modes : SwitchMode(mode)
    \/ \E t \in TimerIds : Click(t)
    \/ \E t \in TimerIds : Tick(t)
    \/ Advance
    \/ AlarmEnds

SpecCountdown == InitCountdown /\ [][NextCountdown]_vars

\* The renderer over recipes of every total time of FormatTimes.
NextFormat ==
    \/ \E mode \in Modes : SwitchMode(mode)
    \/ \E text \in WaitTexts, clear \in BoolSet : SetViewData(text, clear)

SpecFormat == Init /\ [][NextFormat]_vars

\* The editor: the text, the cursor, the mode and the theme signal.
NextTheme ==
    \/ \E mode \in Modes : SwitchMode(mode)
    \/ GetViewData
    \/ \E text \in Texts, clear \in BoolSet : SetViewData(text, clear)
    \/ \E text \in Texts : Edit(text)
    \/ \E isDarkMode \in BoolSet : UpdateEditorTheme(isDarkMode)
    \/ \E pos \in CursorOffsets : MoveCursor(pos)

SpecTheme == Init /\ [][NextTheme]_vars

(***************************************************************************)
(* Properties.                                                             *)
(***************************************************************************)
\* A step that re-renders the preview: setViewData while currentView is
\* 'preview', or switchMode('preview').
Rerender ==
    \/ \E text \in Texts, clear \in BoolSet :
          currentView = "preview" /\ SetViewData(text, clear)
    \/ SwitchMode("preview")

\* A step of timer t: a click on its button, or a run of its interval callback.
TimerStep(t) == Click(t) \/ Tick(t)

\* A click that finds timer t running: cancel().
Cancel(t) == timers[t].end # Null /\ Click(t)

\* C1: re-rendering the preview (setViewData in preview, or
\* switchMode('preview')) leaves zero live tick schedules afterwards: every
\* interval of the discarded render tree is cancelled.
C1_RerenderLeavesNoSchedule ==
    [][Rerender => \A t \in TimerIds : schedules'[t] = Null]_vars

C3_CancelReturnsToIdle ==
    [][\A t \in TimerIds :
          Cancel(t) =>
              /\ timers'[t].end = Null
              /\ timers'[t].interval = Null
              /\ schedules'[t] = Null
              /\ ~timers'[t].running
              /\ (click(t).timer.end # Null /\ click(t).schedules[t] # Null)'
      ]_vars

\* An attached idle timer shows a countdown text: it ran, ticked and was
\* cancelled (an expiry would have left it Expired).
C3_Witness ==
    \E t \in TreeTimers(previewEl) :
        /\ timers[t].phase = "Idle"
        /\ timers[t].amountText = formatTimeForTimer(1)
        /\ timers[t].end = Null

\* C4: after cancel() returns no alarm sound started by an earlier expiry is
\* still playing.
C4_CancelStopsAlarm ==
    [][\A t \in TimerIds : Cancel(t) => ~alarmAudio']_vars

\* C5, as stated: in a preview of several timers a step of one timer leaves
\* every other timer as it was, and there is no mutable state shared between
\* two timers, so the step writes neither of the view's audio players, which
\* the closures of all timers play and stop.
C5_NoSharedState ==
    [][\A t \in TimerIds :
          (TimerStep(t) /\ \E u \in TreeTimers(previewEl) : u # t) =>
              /\ \A u \in TimerIds \ {t} :
                    timers'[u] = timers[u] /\ schedules'[u] = schedules[u]
              /\ alarmAudio' = alarmAudio
              /\ timerAudio' = timerAudio
      ]_vars

\* C5, amended: a step of one timer leaves every other timer's deadline,
\* schedule, 'running' mark and countdown text as they were, and the view's
\* mode, text, recipe and render tree too; the only mutable state two timers
\* share is the view's two audio players.
C5_TimersIndependent ==
    [][\A t \in TimerIds :
          TimerStep(t) =>
              /\ \A u \in TimerIds \ {t} :
                    timers'[u] = timers[u] /\ schedules'[u] = schedules[u]
              /\ UNCHANGED <<currentView, changeModeButton, previewDisplay,
                             sourceDisplay, doc, data, recipe, previewEl,
                             pending, now, settings, files, thrown,
                   selection, editorTheme>>
      ]_vars

\* Two timers of one preview ran together, and one expired while the other
\* went on running.
C5_Witness ==
    \E t, u \in TreeTimers(previewEl) :
        /\ t # u
        /\ timers[t].phase = "Expired"
        /\ timers[u].phase = "Running"
        /\ timers[u].amountText = formatTimeForTimer(1)

\* The closure state and widget DOM of a timer, without its history.
Widget(tm) ==
    [end |-> tm.end, interval |-> tm.interval, running |-> tm.running,
     amountText |-> tm.amountText]

\* C6: switchMode(m) with m the mode already active leaves the render tree
\* and every timer in it, idle or running, as they were.
C6_SameModeSwitchIsNoOp ==
    [][\A mode \in Modes :
          (currentView = mode /\ SwitchMode(mode)) =>
              /\ \A t \in TreeTimers(previewEl) :
                    /\ t \in TreeTimers(previewEl')
                    /\ Widget(timers'[t]) = Widget(timers[t])
                    /\ schedules'[t] = schedules[t]
      ]_vars

\* C7: when switchMode returns, for an explicit target or for a click on the
\* mode button without the modifier key, currentView is the resolved target.
C7_SwitchIsSynchronous ==
    [][/\ \A mode \in Modes : SwitchMode(mode) => currentView' = mode
       /\ ToggleClick => currentView' = ToggleTarget
      ]_vars

\* C8: when setState completes, currentView is state.mode if the state has a
\* mode field, and is unchanged if it has none.
C8_SetStateAppliesMode ==
    [][SetStateThen =>
          IF Head(pending).mode # NoMode
            THEN currentView' = Head(pending).mode
            ELSE currentView' = currentView
      ]_vars

\* A restore with mode 'preview' has completed: nothing else of this
\* specification leaves 'source'.
C8_Witness == currentView = "preview" /\ pending = <<>>

\* The mode of a fresh view (onload leaves it in 'source') once
\* setState(state) has completed.
RestoredView(state) == IF state.mode # NoMode THEN state.mode ELSE "source"

\* C9: a fresh view restored with setState(getState()) of this view ends in
\* the mode of this view.
C9_ModeSurvivesRestore == RestoredView(getState) = currentView

\* The render tree has a child of the given class.
HasSection(tree, cls) == \E i \in 1..Len(tree) : tree[i].cls = cls

\* A sibling of an accepted image type has the document's base name.
MainImageExists ==
    \E i \in 1..Len(files) :
        /\ files[i].basename = ThisFile.basename
        /\ files[i].extension \in ImageExtensions

\* C10, as stated: after a render of a model, each gated section is in the
\* render tree iff its toggle is true and its list is not empty / the total
\* time is positive / a main image exists.
C10_SectionIffToggleAndGate ==
    [][(Rerender /\ recipe'.defined) =>
          /\ HasSection(previewEl', "main-image")
                <=> (settings.showImages /\ MainImageExists)
          /\ HasSection(previewEl', "ingredients")
                <=> (settings.showIngredientList /\ recipe'.ingredients # <<>>)
          /\ HasSection(previewEl', "cookware")
                <=> (settings.showCookwareList /\ recipe'.cookware # <<>>)
          /\ HasSection(previewEl', "timers")
                <=> (settings.showTimersList /\ recipe'.timers # <<>>)
          /\ HasSection(previewEl', "time")
                <=> (settings.showTotalTime /\ calculateTotalTime(recipe') > 0)
      ]_vars

\* C10, amended: after a render of a model, the main image is in the render
\* tree iff showImages is true and a main image exists, the total time iff
\* showTotalTime is true and the total is positive, and each of the three
\* lists, with its header, iff its toggle is true, also when the list is
\* empty.
C10_SectionIffToggleAndImageOrTime ==
    [][(Rerender /\ recipe'.defined) =>
          /\ HasSection(previewEl', "main-image")
                <=> (settings.showImages /\ MainImageExists)
          /\ HasSection(previewEl', "ingredients")
                <=> settings.showIngredientList
          /\ HasSection(previewEl', "ingredients-header")
                <=> settings.showIngredientList
          /\ HasSection(previewEl', "cookware")
                <=> settings.showCookwareList
          /\ HasSection(previewEl', "cookware-header")
                <=> settings.showCookwareList
          /\ HasSection(previewEl', "timers")
                <=> settings.showTimersList
          /\ HasSection(previewEl', "timer-header")
                <=> settings.showTimersList
          /\ HasSection(previewEl', "time")
                <=> (settings.showTotalTime /\ calculateTotalTime(recipe') > 0)
          /\ HasSection(previewEl', "time-header")
                <=> (settings.showTotalTime /\ calculateTotalTime(recipe') > 0)
      ]_vars

\* A model without ingredients is rendered with the ingredients toggle on: the
\* tree holds the Ingredients header over an empty list, and neither a total
\* time (the total is 0) nor, in a folder without images, a main image.
C10_Witness ==
    /\ recipe.defined
    /\ recipe.ingredients = <<>>
    /\ settings.showIngredientList /\ settings.showTotalTime
    /\ settings.showImages /\ ~MainImageExists
    /\ HasSection(previewEl, "ingredients-header")
    /\ \E i \in 1..Len(previewEl) :
          previewEl[i].cls = "ingredients" /\ previewEl[i].children = <<>>
    /\ ~HasSection(previewEl, "time")
    /\ ~HasSection(previewEl, "main-image")

\* A node without the identity of the timer closure bound to it: the
\* countdown text of a timer is kept in the closure's record, not in the node.
RECURSIVE ShapeOf(_)
ShapeOf(node) ==
    [node EXCEPT !.timer = IF node.timer = 0 THEN 0 ELSE 1,
                 !.children = [i \in 1..Len(node.children) |->
                                  ShapeOf(node.children[i])]]

Shape(tree) == [i \in 1..Len(tree) |-> ShapeOf(tree[i])]

\* C11: with the model, the toggles and the sibling files unchanged,
\* switchMode('preview') after switchMode('source') after an earlier
\* switchMode('preview') builds a render tree equivalent to the tree of the
\* earlier render, the live countdown texts of its timers set aside.
C11_RoundTripRendersSameTree ==
    [][(currentView = "source" /\ previewEl # <<>> /\ SwitchMode("preview")) =>
          Shape(previewEl') = Shape(previewEl)
      ]_vars

\* The preview was rendered again while a countdown of the earlier render
\* showed its remaining time: that closure still ticks and its widget is not
\* in the tree any more.
C11_Witness ==
    /\ currentView = "preview"
    /\ previewEl # <<>>
    /\ \E t \in TimerIds :
          /\ t \notin TreeTimers(previewEl)
          /\ schedules[t] # Null
          /\ timers[t].amountText = formatTimeForTimer(1)

\* A step of getViewData or setViewData in which the parser throws: both
\* assign this.data before they call the parser.
ParseFails ==
    /\ GetViewData \/ \E text \in ParseTexts, clear \in BoolSet :
                          SetViewData(text, clear)
    /\ ParserThrows(data')

\* C12: when the parser throws in getViewData or setViewData no exception
\* leaves the operation and the model stays what it was, and as long as the
\* last text given to the parser is one it threw on, no operation renders
\* the preview: switchMode('preview') leaves the render tree as it is.
C12_ParseFailureIsNonFatal ==
    [][/\ ParseFails => (~thrown' /\ recipe' = recipe)
       /\ (ParserThrows(data) /\ SwitchMode("preview")) =>
              previewEl' = previewEl
      ]_vars

\* C13: a theme-change signal (css-change, updateEditorTheme) leaves the
\* document content, the position of the cursor and currentView exactly as
\* they were before the signal.
C13_ThemeChangeKeepsTextCursorMode ==
    [][\A isDarkMode \in BoolSet :
          UpdateEditorTheme(isDarkMode) =>
              /\ doc' = doc
              /\ selection' = selection
              /\ currentView' = currentView
      ]_vars

\* A sibling of an accepted image type is named <docBaseName>.<n>, with the
\* decimal numeral of n as its suffix.
StepImageExists(n) ==
    \E i \in 1..Len(files) :
        /\ files[i].basename = Append(ThisFile.basename, ToString(n))
        /\ files[i].extension \in ImageExtensions

\* C14: after a render with images shown, the model has a main image iff a
\* sibling of an accepted image type has the document's base name, and step N
\* has an image iff a sibling of an accepted image type is named
\* <docBaseName>.<N> with N a non-negative integer below the step count;
\* malformed suffixes and indices out of range bind nothing.
C14_BindsWellFormedNamesOnly ==
    [][(Rerender /\ recipe'.defined /\ settings.showImages) =>
          /\ recipe'.image # NoFile <=> MainImageExists
          /\ \A i \in 1..Len(recipe'.steps) :
                recipe'.steps[i].image # NoFile <=> StepImageExists(i - 1)
      ]_vars

\* The recipe without the images that renderPreview writes into it.
Undecorated(r) ==
    [r EXCEPT !.image = NoFile,
              !.steps = [i \in 1..Len(r.steps) |->
                            [r.steps[i] EXCEPT !.image = NoFile]]]

\* C15: setViewData(text, clear) replaces the whole buffer by text and the
\* model by parse(text); while currentView is 'preview' it renders that model,
\* and while it is 'source' it leaves the render tree and its timers as they
\* are; the value of clear changes nothing of this.
C15_SetViewDataReplacesTextAndModel ==
    [][\A text \in Texts, clear \in BoolSet :
          SetViewData(text, clear) =>
              /\ doc' = text
              /\ data' = text
              /\ Undecorated(recipe') = Recipe(text)
              /\ IF currentView = "preview"
                   THEN Shape(previewEl') = Shape(RenderedTree(recipe'))
                   ELSE previewEl' = previewEl /\ timers' = timers
      ]_vars

\* In source mode setViewData has loaded the recipe with two timers over an
\* empty buffer, whose cursor stays at offset 0, and the render tree is still
\* the one of a text without timers.
C15_Witness ==
    /\ currentView = "source"
    /\ doc = DocEggs /\ data = DocEggs /\ selection = 0
    /\ recipe = Recipe(DocEggs)
    /\ previewEl # <<>>
    /\ TreeTimers(previewEl) = {}

\* The text of the total-time paragraph of the render tree, if it has one.
TimeText(tree) ==
    LET S == {i \in 1..Len(tree) : tree[i].cls = "time"}
    IN  IF S = {} THEN None ELSE Some(tree[CHOOSE i \in S : TRUE].text)

\* 'Xh Ym' with X >= 1 and 'Ym' with Y >= 1: the whole minutes of time.
HourMinuteForms(time) ==
    {ToString(h) \o "h " \o ToString(m) \o "m" :
        <<h, m>> \in {x \in (1..(time \div 3600)) \X (0..59) :
                        /\ x[1] * 3600 + x[2] * 60 <= time
                        /\ time < x[1] * 3600 + x[2] * 60 + 60}}
    \cup {ToString(m) \o "m" :
             m \in {y \in 1..59 : y * 60 <= time /\ time < y * 60 + 60}}

\* The same with the remaining seconds appended.
VerboseForms(time) ==
    {f \o " " \o ToString(s) \o "s" :
        <<f, s>> \in HourMinuteForms(time) \X {z \in 0..59 : z = time % 60}}

\* 'Xs' for a time below one minute.
SecondsForms(time) == {ToString(s) \o "s" : s \in {z \in 0..59 : z = time}}

\* C16, as stated: the total time of a rendered recipe is shown as 'Xh Ym'
\* or 'Xm' without a zero-valued higher unit, and never with seconds since
\* the renderer does not set the verbose flag; the section is absent when
\* the total is 0.
C16_TotalTimeNeverShowsSeconds ==
    (currentView = "preview" /\ recipe.defined) =>
        LET time == calculateTotalTime(recipe)
        IN  IF time = 0 THEN TimeText(previewEl) = None
            ELSE /\ IsSome(TimeText(previewEl))
                 /\ Val(TimeText(previewEl)) \in HourMinuteForms(time)

\* C16, amended: a time of one minute or more is shown as 'Xh Ym' (X >= 1)
\* or 'Xm' (X >= 1), in whole minutes rounded down, with the seconds appended
\* only under the verbose flag; a time below one minute is shown as 'Xs'
\* with or without the flag; 125 is "2m" and 3725 is "1h 2m"; the total-time
\* section shows the total so formatted and is absent when the total is 0.
C16_TotalTimeInWholeUnits ==
    /\ (currentView = "preview" /\ recipe.defined) =>
          LET time == calculateTotalTime(recipe)
          IN  IF time = 0 THEN TimeText(previewEl) = None
              ELSE /\ IsSome(TimeText(previewEl))
                   /\ Val(TimeText(previewEl)) \in
                         IF time < 60 THEN SecondsForms(time)
                         ELSE HourMinuteForms(time)
    /\ \A time \in FormatTimes :
          /\ formatTime(time, FALSE) \in
                IF time < 60 THEN SecondsForms(time) ELSE HourMinuteForms(time)
          /\ formatTime(time, TRUE) \in
                IF time < 60 THEN SecondsForms(time) ELSE VerboseForms(time)
    /\ formatTime(125, FALSE) = "2m"
    /\ formatTime(3725, FALSE) = "1h 2m"

\* The preview of a recipe whose timers add up to 3725 seconds shows "1h 2m".
C16_Witness ==
    /\ currentView = "preview"
    /\ recipe.defined
    /\ calculateTotalTime(recipe) = 3725
    /\ TimeText(previewEl) = Some("1h 2m")

\* C17: switching away from the preview tears down its timers: right after
\* switchMode('source') no timer of the preview is Running or holds a live
\* tick schedule, so none rings or notifies later.
C17_LeavingPreviewStopsTimers ==
    [][(currentView = "preview" /\ SwitchMode("source")) =>
          \A t \in TreeTimers(previewEl) :
              /\ timers'[t].phase # "Running"
              /\ ~timers'[t].running
              /\ schedules'[t] = Null
      ]_vars

\* A run of the interval callback of timer t that ends the countdown: it
\* clears the interval and plays the alarm.
Expiry(t) == Tick(t) /\ schedules'[t] = Null

\* C18, as stated: a timer expires only at a tick taken when its deadline
\* (activation time + totalSeconds) has been reached; no tick taken strictly
\* before the deadline expires it.
C18_NoExpiryBeforeDeadline ==
    [][\A t \in TimerIds : Expiry(t) => now >= timers[t].end]_vars

\* C18, amended: a timer expires at a tick exactly when the time left to its
\* deadline, rounded to the nearest second, is 0 or less, that is when less
\* than half a second is left: no tick taken half a second or more before
\* the deadline expires it, the first tick taken later than that does, and
\* the expiring tick plays the alarm.
C18_ExpiryWithinHalfSecondOfDeadline ==
    [][\A t \in TimerIds :
          Tick(t) =>
              /\ timers[t].end # Null
              /\ schedules'[t] = Null <=> 2 * (timers[t].end - now) < Second
              /\ schedules'[t] = Null => alarmAudio'
      ]_vars

\* A timer of one second has expired less than one second after the clock's
\* start, and so before its deadline.
C18_Witness ==
    \E t \in TimerIds :
        /\ timers[t].phase = "Expired"
        /\ timers[t].seconds = 1
        /\ now < timers[t].seconds * Second

\* C19: whenever the preview is entered with a model at hand, the tree shown
\* is the render of parse(text of the buffer at that moment): the model
\* rendered is never one parsed from a text that differs from the buffer.
C19_PreviewShowsCurrentText ==
    [][(recipe.defined /\ SwitchMode("preview")) =>
          /\ Undecorated(recipe') = Recipe(doc)
          /\ Shape(previewEl') = Shape(RenderedTree(BoundRecipe(Recipe(doc))))
      ]_vars

\* The deadline of closure t is set iff it holds an interval handle, and it
\* holds one iff the window has a live interval for it.
DeadlineIffInterval(t) ==
    /\ timers[t].end = Null <=> timers[t].interval = Null
    /\ timers[t].interval = Null <=> schedules[t] = Null

\* C20: under every interleaving of clicks and ticks, before and after each
\* step, the deadline of a timer closure is null iff its interval is; a click
\* that activates a timer finds no live schedule of it, so a timer never has
\* two, and a tick only runs for a timer whose deadline is set.
C20_DeadlineIffInterval ==
    [][\A t \in TimerIds :
          /\ DeadlineIffInterval(t)
          /\ DeadlineIffInterval(t)'
          /\ (Click(t) /\ timers[t].end = Null) =>
                (schedules[t] = Null /\ schedules'[t] # Null)
          /\ Tick(t) => timers[t].end # Null
      ]_vars

\* The timer of 0 seconds runs again while the alarm of its expiry still
\* sounds; no other timer of the preview has been started.
C20_Witness ==
    \E t \in TreeTimers(previewEl) :
        /\ timers[t].seconds = 0
        /\ timers[t].end # Null
        /\ schedules[t] # Null
        /\ alarmAudio
        /\ \A u \in TimerIds \ {t} :
              timers[u].end = Null /\ schedules[u] = Null

====
